---- MODULE Spec2Model ----
(***************************************************************************)
(* Model of the coin alert bot (src/src/main.py): the persisted store      *)
(* config.json (threshold alerts per chat and coin, purchase lots per chat *)
(* and coin), the in-memory price cache COIN_PRICE_CACHE, the per-chat     *)
(* context.user_data, and the handlers and scheduler jobs that change      *)
(* them.  Every handler is one atomic action (load, mutate, save, reply);  *)
(* the two scheduler jobs are modelled both as atomic actions and, for the *)
(* questions about threads, step by step (ThreadsSpec, OverlapSpec).       *)
(*                                                                         *)
(* Numbers.  The program computes in IEEE doubles.  The inputs enumerated  *)
(* here are integers and the prices are powers of two, so every quotient   *)
(* the handlers form (amount_usd / price, current_value / amount_usd) is   *)
(* exact both in doubles and in the integer arithmetic of the model.       *)
(* The lot timestamp is a label the handlers never read back; it is left   *)
(* out of the lot record.                                                  *)
(***************************************************************************)
EXTENDS Integers, Sequences, FiniteSets, TLC

VARIABLES
    alerts,      \* config[chat_id] for the chat ids: chat -> coin -> side -> price
    purchases,   \* config['purchases']: ordered dict chat -> ordered dict coin -> list of lots
    cache,       \* COIN_PRICE_CACHE: coin -> usd price (partial)
    user_data,   \* context.user_data of each chat
    reply,       \* what the last handler or job answered
    outbox,      \* the notifications context.bot.send_message sent in the last step
    net,         \* history: per (chat, coin), quantities bought minus quantities sold
    armed,       \* history: the (chat, coin, side) the user set and no notification answered yet
    prev_out,    \* history: per lot, |pl_pct| >= 5 at the previous tick that priced it
    geckoapi,    \* config['geckoapi']: absent, or where the key stands among the keys of config.json
    disk,        \* config.json as a reader finds it: complete, or truncated by a save in progress
    tick,        \* the running instances of the check_price job, each with its loaded config
    job          \* the update_all_prices job: idle, due or fetching

vars == <<alerts, purchases, cache, user_data, reply, outbox, net, armed, prev_out,
          geckoapi, disk, tick, job>>
store == <<alerts, purchases>>
threads == <<geckoapi, disk, tick, job>>

----------------------------------------------------------------------------
(* Bounds and input sets *)

MaxRecords == 2       \* lots plus threshold sides kept in the store at one time
MaxQty == 2           \* largest lot quantity explored

Users == {"u1"}
Coins == {"btc", "ton"}
Prices == {1, 2}
TradedCoins == {"ton"}
NoCoin == "none"
Sides == {"above", "below"}

\* the text of a command argument or of a message
Num(v) == [kind |-> "num", val |-> v]
MaxText == [kind |-> "max", val |-> 0]
BadText == [kind |-> "text", val |-> 0]

BuyAmounts == {-2, 0, 2}
SellQuantities == {-1, 0, 1, 3}
AlertPrices == {1, 3}

BuyArgs == {<<>>} \cup {<<t>> : t \in {Num(v) : v \in BuyAmounts} \cup {BadText}}
SellArgs == {<<>>} \cup {<<t>> : t \in {Num(v) : v \in SellQuantities} \cup {MaxText, BadText}}
AlertTexts == {Num(v) : v \in AlertPrices} \cup {BadText}

\* what the upstream API may answer for the registered coins
Responses == UNION {[S -> Prices] : S \in SUBSET Coins}

\* the answers that differ for a chat trading one coin: nothing, a price for the
\* traded coin, a price for another coin alone
TradedResponses ==
    [TradedCoins -> Prices] \cup {<<>>} \cup {[c \in Coins \ TradedCoins |-> 1]}

----------------------------------------------------------------------------
(* Python values *)

\* mutant of ParseFloat: a text that is no number is read as 0.0
ParseFloatLenient(t) == [ok |-> TRUE, val |-> t.val]

\* float(text): a number, or ValueError
ParseFloat(t) == IF t.kind = "num" THEN [ok |-> TRUE, val |-> t.val]
                 ELSE [ok |-> FALSE, val |-> 0]

\* ordered dict as a sequence of [k, v] entries
Keys(d) == {d[i].k : i \in DOMAIN d}
Get(d, key, default) ==
    IF key \in Keys(d) THEN d[CHOOSE i \in DOMAIN d : d[i].k = key].v ELSE default
Put(d, key, val) ==
    IF key \in Keys(d)
    THEN [i \in DOMAIN d |-> IF d[i].k = key THEN [k |-> key, v |-> val] ELSE d[i]]
    ELSE Append(d, [k |-> key, v |-> val])
Del(d, key) == SelectSeq(d, LAMBDA e : e.k # key)

RECURSIVE Concat(_)
Concat(ss) == IF Len(ss) = 0 THEN <<>> ELSE Head(ss) \o Concat(Tail(ss))

RECURSIVE SumQuantity(_)
SumQuantity(lots) ==
    IF Len(lots) = 0 THEN 0 ELSE Head(lots).quantity + SumQuantity(Tail(lots))

\* config.get('purchases', {}).get(chat_id, {}).get(coin_id, [])
LotsOf(purch, chat, coin) == Get(Get(purch, chat, <<>>), coin, <<>>)

TotalLots(purch) ==
    Len(Concat([ui \in DOMAIN purch |-> Concat([ci \in DOMAIN purch[ui].v |-> purch[ui].v[ci].v])]))

TotalSides(cfg) ==
    Cardinality({x \in Users \X Coins \X Sides :
        x[1] \in DOMAIN cfg /\ x[2] \in DOMAIN cfg[x[1]] /\ x[3] \in DOMAIN cfg[x[1]][x[2]]})

\* the number of records the store holds
Records == TotalLots(purchases) + TotalSides(alerts)

\* COIN_PRICE_CACHE.get(coin_id) is truthy
HasPrice(coin) == coin \in DOMAIN cache

\* mutant of get_price: a coin without a cached price is given a default price
get_priceDefault(coin) == [ok |-> TRUE, usd |-> IF HasPrice(coin) THEN cache[coin] ELSE 1]

\* get_price: the cached usd price, or None (ok = FALSE)
get_price(coin) == IF HasPrice(coin) THEN [ok |-> TRUE, usd |-> cache[coin]]
                   ELSE [ok |-> FALSE, usd |-> 0]

Reply(op, outcome, qty, price, usd) ==
    [op |-> op, outcome |-> outcome, qty |-> qty, price |-> price, usd |-> usd]
Answer(op, outcome) == Reply(op, outcome, 0, 0, 0)

Restrict(f, S) == [x \in S |-> f[x]]

\* config['coins_available'], held fixed: both coins are registered
coins_available == Coins

----------------------------------------------------------------------------
(* Initial state: a store with no chat entry and no purchase, an empty cache *)

Init ==
    /\ alerts = <<>>
    /\ purchases = <<>>
    /\ cache = <<>>
    /\ user_data = [u \in Users |-> [coin |-> NoCoin, setting_above |-> FALSE, setting_below |-> FALSE]]
    /\ reply = Answer("start", "ok")
    /\ outbox = {}
    /\ net = [u \in Users |-> [c \in Coins |-> 0]]
    /\ armed = {}
    /\ prev_out = [u \in Users |-> [c \in Coins |-> <<>>]]
    /\ geckoapi = "absent"
    /\ disk = "complete"
    /\ tick = <<>>
    /\ job = "idle"

----------------------------------------------------------------------------
(* update_all_prices: the scheduler job that refreshes the cache *)

\* mutant of Refreshed: the response is merged into the previous snapshot
RefreshedMerge(previous, response) ==
    [c \in DOMAIN previous \cup DOMAIN response |->
        IF c \in DOMAIN response THEN response[c] ELSE previous[c]]

\* COIN_PRICE_CACHE = response.json()
Refreshed(previous, response) == response

UpdateAllPrices(ok, response) ==
    /\ disk = "complete"
    /\ cache' = IF coins_available = {} THEN cache
                ELSE IF ok THEN Refreshed(cache, response) ELSE cache
    /\ reply' = Answer("update_all_prices",
                       IF coins_available = {} THEN "no_coins" ELSE IF ok THEN "updated" ELSE "error")
    /\ outbox' = {}
    /\ UNCHANGED <<alerts, purchases, user_data, net, armed, prev_out>>
    /\ UNCHANGED threads

----------------------------------------------------------------------------
(* button: the inline keyboard callbacks *)

ButtonSelectCoin(u, c) ==
    /\ disk = "complete"
    /\ user_data' = IF c \in coins_available
                    THEN [user_data EXCEPT ![u].coin = c]
                    ELSE user_data
    /\ reply' = Answer("button", IF c \in coins_available THEN "selected" ELSE "unavailable")
    /\ outbox' = {}
    /\ UNCHANGED <<alerts, purchases, cache, net, armed, prev_out>>
    /\ UNCHANGED threads

ButtonSetAbove(u) ==
    /\ disk = "complete"
    /\ user_data' = [user_data EXCEPT ![u].setting_above = TRUE]
    /\ reply' = Answer("button", "ask_above")
    /\ outbox' = {}
    /\ UNCHANGED <<alerts, purchases, cache, net, armed, prev_out>>
    /\ UNCHANGED threads

ButtonSetBelow(u) ==
    /\ disk = "complete"
    /\ user_data' = [user_data EXCEPT ![u].setting_below = TRUE]
    /\ reply' = Answer("button", "ask_below")
    /\ outbox' = {}
    /\ UNCHANGED <<alerts, purchases, cache, net, armed, prev_out>>
    /\ UNCHANGED threads

----------------------------------------------------------------------------
(* set_price_alert: the handler of a plain text message *)

\* mutant of SetSide: the record is replaced by one holding the new side alone
SetSideReplacesRecord(cfg, chat, coin, side, price) ==
    LET coins == IF chat \in DOMAIN cfg THEN cfg[chat] ELSE <<>>
        th2 == [s \in {side} |-> price]
        coins2 == [c \in DOMAIN coins \cup {coin} |-> IF c = coin THEN th2 ELSE coins[c]]
    IN  [x \in DOMAIN cfg \cup {chat} |-> IF x = chat THEN coins2 ELSE cfg[x]]

\* config.setdefault(chat_id, {}).setdefault(coin_id, {}); config[chat_id][coin_id][side] = price
SetSide(cfg, chat, coin, side, price) ==
    LET coins == IF chat \in DOMAIN cfg THEN cfg[chat] ELSE <<>>
        th == IF coin \in DOMAIN coins THEN coins[coin] ELSE <<>>
        th2 == [s \in DOMAIN th \cup {side} |-> IF s = side THEN price ELSE th[s]]
        coins2 == [c \in DOMAIN coins \cup {coin} |-> IF c = coin THEN th2 ELSE coins[c]]
    IN  [x \in DOMAIN cfg \cup {chat} |-> IF x = chat THEN coins2 ELSE cfg[x]]

\* the side a parsed price is stored under: setting_above wins over setting_below
PendingSide(ud) == IF ud.setting_above THEN "above"
                   ELSE IF ud.setting_below THEN "below" ELSE "none"

SetPriceAlert(u, text) ==
    LET coin == user_data[u].coin
        parsed == ParseFloat(text)
        side == PendingSide(user_data[u])
    IN  /\ disk = "complete"
        /\ outbox' = {}
        /\ UNCHANGED <<purchases, cache, net, prev_out>>
        /\ UNCHANGED threads
        /\ IF coin = NoCoin
           THEN /\ reply' = Answer("set_price_alert", "no_coin")
                /\ UNCHANGED <<alerts, user_data, armed>>
           ELSE IF ~parsed.ok
           THEN /\ reply' = Answer("set_price_alert", "invalid")
                /\ UNCHANGED <<alerts, user_data, armed>>
           ELSE IF side = "none"
           THEN /\ reply' = Answer("set_price_alert", "saved")
                /\ UNCHANGED <<alerts, user_data, armed>>
           ELSE /\ TotalSides(SetSide(alerts, u, coin, side, parsed.val)) > TotalSides(alerts)
                   => Records < MaxRecords
                /\ alerts' = SetSide(alerts, u, coin, side, parsed.val)
                /\ user_data' = IF side = "above"
                                THEN [user_data EXCEPT ![u].setting_above = FALSE]
                                ELSE [user_data EXCEPT ![u].setting_below = FALSE]
                /\ armed' = armed \cup {<<u, coin, side>>}
                /\ reply' = Reply("set_price_alert", side, 0, parsed.val, 0)

----------------------------------------------------------------------------
(* reset_notification_flags *)

\* mutant of ResetFlags: the flags are left as they are
ResetFlagsKept(lots) == lots

\* purchase["notified"] = False, for every purchase of the list
ResetFlags(lots) == [i \in DOMAIN lots |-> [lots[i] EXCEPT !.notified = FALSE]]

reset_notification_flags(purch, chat, coin) ==
    IF chat \in Keys(purch) /\ coin \in Keys(Get(purch, chat, <<>>))
    THEN Put(purch, chat, Put(Get(purch, chat, <<>>), coin, ResetFlags(LotsOf(purch, chat, coin))))
    ELSE purch

----------------------------------------------------------------------------
(* buy *)

\* the lot /buy appends: quantity = amount_usd / current_price
PurchaseEntry(amount_usd, current_price) ==
    [amount_usd |-> amount_usd, price_per_coin |-> current_price,
     quantity |-> amount_usd \div current_price, notified |-> FALSE]

\* setdefault('purchases', {}).setdefault(chat_id, {}).setdefault(coin_id, []).append(entry)
AppendLot(purch, chat, coin, entry) ==
    Put(purch, chat, Put(Get(purch, chat, <<>>), coin, Append(LotsOf(purch, chat, coin), entry)))

BuyOutcome(ud, args) ==
    IF ud.coin = NoCoin THEN "no_coin"
    ELSE IF Len(args) # 1 THEN "usage"
    ELSE IF ~ParseFloat(args[1]).ok THEN "invalid"
    ELSE IF ~get_price(ud.coin).ok THEN "no_price"
    ELSE "logged"

Buy(u, args) ==
    LET coin == user_data[u].coin
        outcome == BuyOutcome(user_data[u], args)
    IN  /\ disk = "complete"
        /\ outbox' = {}
        /\ UNCHANGED <<alerts, cache, user_data, armed>>
        /\ UNCHANGED threads
        /\ IF outcome # "logged"
           THEN /\ reply' = Answer("buy", outcome)
                /\ UNCHANGED <<purchases, net, prev_out>>
           ELSE LET entry == PurchaseEntry(ParseFloat(args[1]).val, get_price(coin).usd)
                    saved == reset_notification_flags(AppendLot(purchases, u, coin, entry), u, coin)
                IN  /\ Records < MaxRecords
                    /\ net[u][coin] <= MaxQty * MaxRecords
                    /\ purchases' = saved
                    /\ net' = [net EXCEPT ![u][coin] = @ + entry.quantity]
                    /\ prev_out' = [prev_out EXCEPT ![u][coin] =
                                        [i \in DOMAIN LotsOf(saved, u, coin) |-> FALSE]]
                    /\ reply' = Reply("buy", "logged", entry.quantity, entry.price_per_coin, entry.amount_usd)

----------------------------------------------------------------------------
(* sell *)

\* mutant of SellLoop: a lot sold whole is not taken off the amount left to sell
RECURSIVE SellLoopNoDecrement(_, _, _, _, _)
SellLoopNoDecrement(updated, i, remaining_to_sell, realized_amount_usd, current_price) ==
    IF i = 0 \/ remaining_to_sell = 0
    THEN [lots |-> updated, realized |-> realized_amount_usd, remaining |-> remaining_to_sell]
    ELSE IF updated[i].quantity <= remaining_to_sell
    THEN SellLoopNoDecrement(SubSeq(updated, 1, Len(updated) - 1), i - 1,
                  remaining_to_sell,
                  realized_amount_usd + updated[i].quantity * current_price, current_price)
    ELSE SellLoopNoDecrement([updated EXCEPT ![i] =
                      [@ EXCEPT !.quantity = updated[i].quantity - remaining_to_sell,
                                !.amount_usd = (updated[i].quantity - remaining_to_sell)
                                               * updated[i].price_per_coin]],
                  i - 1, 0,
                  realized_amount_usd + remaining_to_sell * current_price, current_price)

\* mutant of SellLoop: a lot sold in part keeps its amount_usd
RECURSIVE SellLoopKeepsInvested(_, _, _, _, _)
SellLoopKeepsInvested(updated, i, remaining_to_sell, realized_amount_usd, current_price) ==
    IF i = 0 \/ remaining_to_sell = 0
    THEN [lots |-> updated, realized |-> realized_amount_usd, remaining |-> remaining_to_sell]
    ELSE IF updated[i].quantity <= remaining_to_sell
    THEN SellLoopKeepsInvested(SubSeq(updated, 1, Len(updated) - 1), i - 1,
                  remaining_to_sell - updated[i].quantity,
                  realized_amount_usd + updated[i].quantity * current_price, current_price)
    ELSE SellLoopKeepsInvested([updated EXCEPT ![i] =
                      [@ EXCEPT !.quantity = updated[i].quantity - remaining_to_sell]],
                  i - 1, 0,
                  realized_amount_usd + remaining_to_sell * current_price, current_price)

\* the LIFO loop over reversed(coin_purchases); `updated` is updated_purchases,
\* i the position of the purchase the loop is at
RECURSIVE SellLoop(_, _, _, _, _)
SellLoop(updated, i, remaining_to_sell, realized_amount_usd, current_price) ==
    IF i = 0 \/ remaining_to_sell = 0
    THEN [lots |-> updated, realized |-> realized_amount_usd, remaining |-> remaining_to_sell]
    ELSE IF updated[i].quantity <= remaining_to_sell
    THEN SellLoop(SubSeq(updated, 1, Len(updated) - 1), i - 1,
                  remaining_to_sell - updated[i].quantity,
                  realized_amount_usd + updated[i].quantity * current_price, current_price)
    ELSE SellLoop([updated EXCEPT ![i] =
                      [@ EXCEPT !.quantity = updated[i].quantity - remaining_to_sell,
                                !.amount_usd = (updated[i].quantity - remaining_to_sell)
                                               * updated[i].price_per_coin]],
                  i - 1, 0,
                  realized_amount_usd + remaining_to_sell * current_price, current_price)

\* mutant of NotEnough: the check against the holdings is left out
NotEnoughNever(sell_quantity, total_available) == FALSE

\* sell_quantity > total_available
NotEnough(sell_quantity, total_available) == sell_quantity > total_available

\* the quantity /sell resolves its argument to
SellQuantity(arg, total_available) ==
    IF arg.kind = "max" THEN total_available ELSE ParseFloat(arg).val

SellOutcome(ud, args, lots) ==
    IF ud.coin = NoCoin THEN "no_coin"
    ELSE IF Len(args) # 1 THEN "usage"
    ELSE IF Len(lots) = 0 THEN "no_purchases"
    ELSE IF args[1].kind = "max" /\ SumQuantity(lots) = 0 THEN "nothing_to_sell"
    ELSE IF args[1].kind # "max" /\ ~ParseFloat(args[1]).ok THEN "invalid"
    ELSE IF NotEnough(SellQuantity(args[1], SumQuantity(lots)), SumQuantity(lots)) THEN "not_enough"
    ELSE IF ~get_price(ud.coin).ok THEN "no_price"
    ELSE "sold"

\* config['purchases'][chat_id][coin_id] = updated_purchases, or del when none is left
StoreLots(purch, chat, coin, updated) ==
    IF Len(updated) > 0
    THEN Put(purch, chat, Put(Get(purch, chat, <<>>), coin, updated))
    ELSE Put(purch, chat, Del(Get(purch, chat, <<>>), coin))

Sell(u, args) ==
    LET coin == user_data[u].coin
        lots == LotsOf(purchases, u, coin)
        outcome == SellOutcome(user_data[u], args, lots)
    IN  /\ disk = "complete"
        /\ outbox' = {}
        /\ UNCHANGED <<alerts, cache, user_data, armed>>
        /\ UNCHANGED threads
        /\ IF outcome # "sold"
           THEN /\ reply' = Answer("sell", outcome)
                /\ UNCHANGED <<purchases, net, prev_out>>
           ELSE LET sell_quantity == SellQuantity(args[1], SumQuantity(lots))
                    current_price == get_price(coin).usd
                    done == SellLoop(lots, Len(lots), sell_quantity, 0, current_price)
                    saved == reset_notification_flags(
                                 StoreLots(purchases, u, coin, done.lots), u, coin)
                IN  /\ \A i \in DOMAIN done.lots : done.lots[i].quantity <= MaxQty
                    /\ net[u][coin] >= -(MaxQty * MaxRecords)
                    /\ purchases' = saved
                    /\ net' = [net EXCEPT ![u][coin] = @ - sell_quantity]
                    /\ prev_out' = [prev_out EXCEPT ![u][coin] =
                                        [i \in DOMAIN LotsOf(saved, u, coin) |-> FALSE]]
                    /\ reply' = Reply("sell", "sold", sell_quantity, current_price, done.realized)

----------------------------------------------------------------------------
(* history *)

RECURSIVE SumAmount(_)
SumAmount(lots) ==
    IF Len(lots) = 0 THEN 0 ELSE Head(lots).amount_usd + SumAmount(Tail(lots))

\* the coins of user_purchases the report prices: a coin without a cached price is skipped
PricedEntries(user_purchases) ==
    SelectSeq(user_purchases, LAMBDA e : HasPrice(e.k))

\* total_invested_overall: the invested amounts of the priced coins
RECURSIVE TotalInvested(_)
TotalInvested(entries) ==
    IF Len(entries) = 0 THEN 0
    ELSE SumAmount(Head(entries).v) + TotalInvested(Tail(entries))

\* a division of the report raises ZeroDivisionError: a coin's value by its
\* invested total, a purchase's value by its invested amount, or the portfolio
\* value by total_invested_overall
HistoryRaises(user_purchases) ==
    LET entries == PricedEntries(user_purchases) IN
    \/ \E ci \in DOMAIN entries :
          \/ SumAmount(entries[ci].v) = 0
          \/ \E li \in DOMAIN entries[ci].v : entries[ci].v[li].amount_usd = 0
    \/ TotalInvested(entries) = 0

History(u) ==
    LET user_purchases == Get(purchases, u, <<>>) IN
    /\ disk = "complete"
    /\ reply' = Answer("history",
                       IF Len(user_purchases) = 0 THEN "empty"
                       ELSE IF HistoryRaises(user_purchases) THEN "ZeroDivisionError"
                       ELSE "report")
    /\ outbox' = {}
    /\ UNCHANGED <<alerts, purchases, cache, user_data, net, armed, prev_out>>
    /\ UNCHANGED threads

----------------------------------------------------------------------------
(* check_price: the scheduler job that evaluates thresholds and lots *)

\* mutant of FiredSides: a price equal to the threshold fires the side
FiredSidesInclusive(thresholds, price) ==
    {s \in DOMAIN thresholds : \/ s = "above" /\ price >= thresholds[s]
                               \/ s = "below" /\ price <= thresholds[s]}

\* the sides of a threshold record that fire at a price
FiredSides(thresholds, price) ==
    {s \in DOMAIN thresholds : \/ s = "above" /\ price > thresholds[s]
                               \/ s = "below" /\ price < thresholds[s]}

\* mutant of AfterFire: the record of a coin without a price is emptied
AfterFireDropsUnpriced(thresholds, coin) ==
    IF HasPrice(coin)
    THEN Restrict(thresholds, DOMAIN thresholds \ FiredSides(thresholds, cache[coin]))
    ELSE Restrict(thresholds, {})

\* the record after evaluation: a fired side is deleted; no price, no evaluation
AfterFire(thresholds, coin) ==
    IF HasPrice(coin)
    THEN Restrict(thresholds, DOMAIN thresholds \ FiredSides(thresholds, cache[coin]))
    ELSE thresholds

\* mutant of PruneCoins: a record left with no side is kept
PruneCoinsKeepsEmpty(coins) == [c \in DOMAIN coins |-> AfterFire(coins[c], c)]

\* coins_to_delete: the records left with no side are deleted from the chat's map
PruneCoins(coins) ==
    LET evaluated == [c \in DOMAIN coins |-> AfterFire(coins[c], c)]
    IN  Restrict(evaluated, {c \in DOMAIN coins : DOMAIN evaluated[c] # {}})

\* chat_ids_to_delete are deleted from user_configs (a separate dict holding the
\* same per-chat maps), then config.update(user_configs): a chat whose map became
\* empty keeps its entry in config
ConfigUpdate(cfg) ==
    LET mutated == [u \in DOMAIN cfg |-> PruneCoins(cfg[u])]
        user_configs == Restrict(mutated, {u \in DOMAIN mutated : DOMAIN mutated[u] # {}})
    IN  [u \in DOMAIN mutated \cup DOMAIN user_configs |->
            IF u \in DOMAIN user_configs THEN user_configs[u] ELSE mutated[u]]

Msg(chat, coin, kind, lot) == [chat |-> chat, coin |-> coin, kind |-> kind, lot |-> lot]

ThresholdMessages(cfg) ==
    {Msg(u, c, s, 0) : <<u, c, s>> \in
        {x \in Users \X Coins \X Sides :
            /\ x[1] \in DOMAIN cfg /\ x[2] \in DOMAIN cfg[x[1]] /\ HasPrice(x[2])
            /\ x[3] \in FiredSides(cfg[x[1]][x[2]], cache[x[2]])}}

\* profit_loss_percent >= 5, for a lot with amount_usd # 0
PlHigh(lot, current_price) ==
    IF lot.amount_usd > 0
    THEN 100 * current_price * lot.quantity >= 105 * lot.amount_usd
    ELSE 100 * current_price * lot.quantity <= 105 * lot.amount_usd

\* profit_loss_percent <= -5, for a lot with amount_usd # 0
PlLow(lot, current_price) ==
    IF lot.amount_usd > 0
    THEN 100 * current_price * lot.quantity <= 95 * lot.amount_usd
    ELSE 100 * current_price * lot.quantity >= 95 * lot.amount_usd

PlOut(lot, current_price) == PlHigh(lot, current_price) \/ PlLow(lot, current_price)

\* current_value / invested_amount raises ZeroDivisionError
DivisionByZero(lot) == lot.amount_usd = 0

\* the lots in the order the job visits them, as <<chat index, coin index, lot index>>;
\* a coin without a cached price is skipped
LotVisits(purch) ==
    Concat([ui \in DOMAIN purch |->
        Concat([ci \in DOMAIN purch[ui].v |->
            IF HasPrice(purch[ui].v[ci].k)
            THEN [li \in DOMAIN purch[ui].v[ci].v |-> <<ui, ci, li>>]
            ELSE <<>>])])

VisitLot(purch, x) == purch[x[1]].v[x[2]].v[x[3]]
VisitCoin(purch, x) == purch[x[1]].v[x[2]].k
VisitChat(purch, x) == purch[x[1]].k

\* the position in the visit order where the job raises, 0 when it does not
RaisesAt(purch) ==
    LET visits == LotVisits(purch)
        bad == {n \in DOMAIN visits : DivisionByZero(VisitLot(purch, visits[n]))}
    IN  IF bad = {} THEN 0 ELSE CHOOSE n \in bad : \A m \in bad : n <= m

\* the lots the job gets to evaluate before it ends or raises
Evaluated(purch) ==
    LET visits == LotVisits(purch)
        stop == RaisesAt(purch)
    IN  {visits[n] : n \in {m \in DOMAIN visits : stop = 0 \/ m < stop}}

\* mutant of NextNotified: a flag once raised is not lowered inside the band
NextNotifiedLatched(lot, current_price) ==
    IF PlOut(lot, current_price) /\ ~lot.notified THEN TRUE ELSE lot.notified

\* the notified flag after the evaluation of one lot
NextNotified(lot, current_price) ==
    IF PlOut(lot, current_price) /\ ~lot.notified THEN TRUE
    ELSE IF ~PlOut(lot, current_price) /\ lot.notified THEN FALSE
    ELSE lot.notified

PlMessages(purch) ==
    {Msg(VisitChat(purch, x), VisitCoin(purch, x), "pl", x[3]) : x \in
        {y \in Evaluated(purch) :
            /\ PlOut(VisitLot(purch, y), cache[VisitCoin(purch, y)])
            /\ ~VisitLot(purch, y).notified}}

EvaluateLots(purch) ==
    [ui \in DOMAIN purch |-> [purch[ui] EXCEPT !.v =
        [ci \in DOMAIN purch[ui].v |-> [purch[ui].v[ci] EXCEPT !.v =
            IF HasPrice(purch[ui].v[ci].k)
            THEN [li \in DOMAIN purch[ui].v[ci].v |->
                    [purch[ui].v[ci].v[li] EXCEPT !.notified =
                        NextNotified(purch[ui].v[ci].v[li], cache[purch[ui].v[ci].k])]]
            ELSE purch[ui].v[ci].v]]]]

\* user_configs keeps every key but 'botid', 'coins_available' and 'purchases': the
\* string under 'geckoapi' is iterated as a chat, and coins.items() raises
\* AttributeError when the loop reaches it; the chats before it in the key order
\* have been evaluated and their messages sent by then
SentBeforeKey(cfg) == IF geckoapi = "last" THEN ThresholdMessages(cfg) ELSE {}

\* history: whether each priced lot is outside the band at this tick
RecordOut(purch, po) ==
    [u \in Users |-> [c \in Coins |->
        IF HasPrice(c)
        THEN [i \in DOMAIN po[u][c] |->
                IF DivisionByZero(LotsOf(purch, u, c)[i]) THEN po[u][c][i]
                ELSE PlOut(LotsOf(purch, u, c)[i], cache[c])]
        ELSE po[u][c]]]

CheckPrice ==
    /\ disk = "complete"
    /\ UNCHANGED <<cache, user_data, net>>
    /\ UNCHANGED threads
    /\ IF DOMAIN cache = {}
       THEN /\ reply' = Answer("check_price", "cache_empty")
            /\ outbox' = {}
            /\ UNCHANGED <<alerts, purchases, armed, prev_out>>
       ELSE IF geckoapi # "absent"
       THEN /\ reply' = Answer("check_price", "AttributeError")
            /\ outbox' = SentBeforeKey(alerts)
            /\ armed' = armed \ {<<m.chat, m.coin, m.kind>> : m \in SentBeforeKey(alerts)}
            /\ UNCHANGED <<alerts, purchases, prev_out>>
       ELSE /\ outbox' = ThresholdMessages(alerts) \cup PlMessages(purchases)
            /\ armed' = armed \ {<<m.chat, m.coin, m.kind>> : m \in ThresholdMessages(alerts)}
            /\ prev_out' = RecordOut(purchases, prev_out)
            /\ IF RaisesAt(purchases) # 0
               THEN /\ reply' = Answer("check_price", "ZeroDivisionError")
                    /\ UNCHANGED <<alerts, purchases>>
               ELSE /\ reply' = Answer("check_price", "saved")
                    /\ alerts' = ConfigUpdate(alerts)
                    /\ purchases' = EvaluateLots(purchases)

----------------------------------------------------------------------------
(* The scheduler threads.  main adds update_all_prices and check_price to a     *)
(* BackgroundScheduler under one interval trigger; the scheduler runs each due  *)
(* job in a thread of its pool, next to the dispatcher thread that runs the     *)
(* handlers.  Here the two jobs advance step by step; a handler runs between    *)
(* two steps of a job.                                                          *)

\* add_job is called without max_instances: the scheduler's default, one running
\* instance per job
max_instances == 1

\* mutant of CanSubmit: a due run is started whatever is running
CanSubmitAlways(running) == TRUE

\* a due run of a job is started while fewer than max_instances of its instances
\* run, and skipped otherwise
CanSubmit(running) == running < max_instances

\* a running check_price: where it is, the config it loaded (and mutates), and
\* whether it has sent a message
Instance(pc, cfg_alerts, cfg_purchases, sent) ==
    [pc |-> pc, alerts |-> cfg_alerts, purchases |-> cfg_purchases, sent |-> sent]

Remove(seq, i) == SubSeq(seq, 1, i - 1) \o SubSeq(seq, i + 1, Len(seq))

\* the trigger fires: both jobs are due and handed to the pool
Fire ==
    /\ job' = IF job = "idle" THEN "due" ELSE job
    /\ tick' = IF CanSubmit(Len(tick))
               THEN Append(tick, Instance("due", <<>>, <<>>, FALSE))
               ELSE tick
    /\ reply' = Answer("scheduler", IF CanSubmit(Len(tick)) THEN "submitted" ELSE "skipped")
    /\ outbox' = {}
    /\ UNCHANGED <<alerts, purchases, cache, user_data, net, armed, prev_out, geckoapi, disk>>

\* update_all_prices, up to the request: load_config, outside the try block
JobLoad ==
    /\ job = "due"
    /\ job' = IF disk = "complete" /\ coins_available # {} THEN "fetching" ELSE "idle"
    /\ reply' = Answer("update_all_prices",
                       IF disk # "complete" THEN "JSONDecodeError"
                       ELSE IF coins_available = {} THEN "no_coins" ELSE "fetching")
    /\ outbox' = {}
    /\ UNCHANGED <<alerts, purchases, cache, user_data, net, armed, prev_out, geckoapi, disk, tick>>

\* update_all_prices, the answer of the request
JobFinish(ok, response) ==
    /\ job = "fetching"
    /\ job' = "idle"
    /\ cache' = IF ok THEN Refreshed(cache, response) ELSE cache
    /\ reply' = Answer("update_all_prices", IF ok THEN "updated" ELSE "error")
    /\ outbox' = {}
    /\ UNCHANGED <<alerts, purchases, user_data, net, armed, prev_out, geckoapi, disk, tick>>

\* check_price, lines 190-197: load_config and the test of the cache
TickLoad(i) ==
    /\ i \in DOMAIN tick
    /\ tick[i].pc = "due"
    /\ IF disk = "complete" /\ DOMAIN cache # {}
       THEN /\ tick' = [tick EXCEPT ![i] = Instance("loaded", alerts, purchases, FALSE)]
            /\ reply' = Answer("check_price", "loaded")
       ELSE /\ tick' = Remove(tick, i)
            /\ reply' = Answer("check_price",
                               IF disk # "complete" THEN "JSONDecodeError" ELSE "cache_empty")
    /\ outbox' = {}
    /\ UNCHANGED <<alerts, purchases, cache, user_data, net, armed, prev_out, geckoapi, disk, job>>

\* check_price, lines 200-228: the threshold loop, its messages, the deletions
TickThresholds(i) ==
    LET cfg == tick[i].alerts
        sent == IF geckoapi = "absent" THEN ThresholdMessages(cfg) ELSE SentBeforeKey(cfg)
    IN  /\ i \in DOMAIN tick
        /\ tick[i].pc = "loaded"
        /\ outbox' = sent
        /\ armed' = armed \ {<<m.chat, m.coin, m.kind>> : m \in sent}
        /\ IF geckoapi # "absent"
           THEN /\ tick' = Remove(tick, i)
                /\ reply' = Answer("check_price", "AttributeError")
           ELSE /\ tick' = [tick EXCEPT ![i] =
                                Instance("thresholds", ConfigUpdate(cfg), tick[i].purchases, sent # {})]
                /\ reply' = Answer("check_price", "thresholds")
        /\ UNCHANGED <<alerts, purchases, cache, user_data, net, prev_out, geckoapi, disk, job>>

\* check_price, lines 231-263: the purchase loop and its messages
TickLots(i) ==
    LET purch == tick[i].purchases IN
    /\ i \in DOMAIN tick
    /\ tick[i].pc = "thresholds"
    /\ outbox' = PlMessages(purch)
    /\ IF RaisesAt(purch) # 0
       THEN /\ tick' = Remove(tick, i)
            /\ reply' = Answer("check_price", "ZeroDivisionError")
       ELSE /\ tick' = [tick EXCEPT ![i] =
                            Instance("lots", tick[i].alerts, EvaluateLots(purch),
                                     tick[i].sent \/ PlMessages(purch) # {})]
            /\ reply' = Answer("check_price", "lots")
    /\ UNCHANGED <<alerts, purchases, cache, user_data, net, armed, prev_out, geckoapi, disk, job>>

\* save_config, line 23: open(CONFIG_FILE, 'w') truncates the file
TickSaveOpen(i) ==
    /\ i \in DOMAIN tick
    /\ tick[i].pc = "lots"
    /\ tick' = [tick EXCEPT ![i].pc = "writing"]
    /\ disk' = "truncated"
    /\ reply' = Answer("check_price", "writing")
    /\ outbox' = {}
    /\ UNCHANGED <<alerts, purchases, cache, user_data, net, armed, prev_out, geckoapi, job>>

\* save_config, line 24: json.dump has written the loaded config, the file is closed
TickSaveClose(i) ==
    /\ i \in DOMAIN tick
    /\ tick[i].pc = "writing"
    /\ alerts' = tick[i].alerts
    /\ purchases' = tick[i].purchases
    /\ disk' = "complete"
    /\ tick' = Remove(tick, i)
    /\ reply' = Answer("check_price", "saved")
    /\ outbox' = {}
    /\ UNCHANGED <<cache, user_data, net, armed, prev_out, geckoapi, job>>

\* button, line 83: load_config while a save has truncated the file
ButtonLoadFails(u) ==
    /\ disk # "complete"
    /\ reply' = Answer("button", "JSONDecodeError")
    /\ outbox' = {}
    /\ UNCHANGED <<alerts, purchases, cache, user_data, net, armed, prev_out>>
    /\ UNCHANGED threads

----------------------------------------------------------------------------
(* The specifications *)

\* every handler and job; the chat trades one coin
Next ==
    \/ \E response \in TradedResponses : UpdateAllPrices(TRUE, response)
    \/ UpdateAllPrices(FALSE, <<>>)
    \/ CheckPrice
    \/ \E u \in Users :
        \/ \E c \in TradedCoins : ButtonSelectCoin(u, c)
        \/ ButtonSetAbove(u)
        \/ ButtonSetBelow(u)
        \/ \E text \in AlertTexts : SetPriceAlert(u, text)
        \/ \E args \in BuyArgs : Buy(u, args)
        \/ \E args \in SellArgs : Sell(u, args)
        \/ History(u)

Spec == Init /\ [][Next]_vars

\* the purchase ledger: coin selection, price refresh, buy, sell and the tick
LedgerNext ==
    \/ \E response \in TradedResponses : UpdateAllPrices(TRUE, response)
    \/ UpdateAllPrices(FALSE, <<>>)
    \/ CheckPrice
    \/ \E u \in Users :
        \/ \E c \in TradedCoins : ButtonSelectCoin(u, c)
        \/ \E args \in BuyArgs : Buy(u, args)
        \/ \E args \in SellArgs : Sell(u, args)

LedgerSpec == Init /\ [][LedgerNext]_vars

\* the commands alone: coin selection, the set buttons, the price message, /buy and
\* /sell, between price refreshes
CommandNext ==
    \/ \E response \in TradedResponses : UpdateAllPrices(TRUE, response)
    \/ UpdateAllPrices(FALSE, <<>>)
    \/ \E u \in Users :
        \/ \E c \in TradedCoins : ButtonSelectCoin(u, c)
        \/ ButtonSetAbove(u)
        \/ ButtonSetBelow(u)
        \/ \E text \in AlertTexts : SetPriceAlert(u, text)
        \/ \E args \in BuyArgs : Buy(u, args)
        \/ \E args \in SellArgs : Sell(u, args)

CommandSpec == Init /\ [][CommandNext]_vars

\* the threshold alerts on every coin: coin selection, the set buttons, the price
\* message, refresh and tick
AlertNext ==
    \/ \E response \in Responses : UpdateAllPrices(TRUE, response)
    \/ UpdateAllPrices(FALSE, <<>>)
    \/ CheckPrice
    \/ \E u \in Users :
        \/ \E c \in Coins : ButtonSelectCoin(u, c)
        \/ ButtonSetAbove(u)
        \/ ButtonSetBelow(u)
        \/ \E text \in AlertTexts : SetPriceAlert(u, text)

AlertSpec == Init /\ [][AlertNext]_vars

\* the store of an installation whose config.json may hold the upstream API key
ReservedInit ==
    /\ alerts = <<>>
    /\ purchases = <<>>
    /\ cache = <<>>
    /\ user_data = [u \in Users |-> [coin |-> NoCoin, setting_above |-> FALSE, setting_below |-> FALSE]]
    /\ reply = Answer("start", "ok")
    /\ outbox = {}
    /\ net = [u \in Users |-> [c \in Coins |-> 0]]
    /\ armed = {}
    /\ prev_out = [u \in Users |-> [c \in Coins |-> <<>>]]
    /\ geckoapi \in {"absent", "first", "last"}
    /\ disk = "complete"
    /\ tick = <<>>
    /\ job = "idle"

\* the threshold alerts of such an installation
ReservedSpec == ReservedInit /\ [][AlertNext]_vars

\* the messages and arguments the chat sends while the jobs run
ThreadTexts == {Num(v) : v \in {1}}
ThreadArgs == {<<Num(v)>> : v \in {2}}
ThreadSellArgs == {<<Num(v)>> : v \in {1}}

\* the jobs step by step in the scheduler's threads, the handlers of the
\* dispatcher thread between their steps (a handler that finds the file complete
\* runs whole; of those that find it truncated, the button handler)
ThreadsNext ==
    \/ Fire
    \/ JobLoad
    \/ \E response \in [TradedCoins -> Prices] : JobFinish(TRUE, response)
    \/ JobFinish(FALSE, <<>>)
    \/ \E i \in 1..max_instances : TickLoad(i)
    \/ \E i \in 1..max_instances : TickThresholds(i)
    \/ \E i \in 1..max_instances : TickLots(i)
    \/ \E i \in 1..max_instances : TickSaveOpen(i)
    \/ \E i \in 1..max_instances : TickSaveClose(i)
    \/ \E u \in Users :
        \/ ButtonLoadFails(u)
        \/ \E c \in TradedCoins : ButtonSelectCoin(u, c)
        \/ ButtonSetAbove(u)
        \/ \E text \in ThreadTexts : SetPriceAlert(u, text)
        \/ \E args \in ThreadArgs : Buy(u, args)

ThreadsSpec == Init /\ [][ThreadsNext]_vars

\* /buy and /sell of the dispatcher thread between the steps of the two jobs
OverlapNext ==
    \/ Fire
    \/ JobLoad
    \/ \E response \in [TradedCoins -> Prices] : JobFinish(TRUE, response)
    \/ \E i \in 1..max_instances : TickLoad(i)
    \/ \E i \in 1..max_instances : TickThresholds(i)
    \/ \E i \in 1..max_instances : TickLots(i)
    \/ \E i \in 1..max_instances : TickSaveOpen(i)
    \/ \E i \in 1..max_instances : TickSaveClose(i)
    \/ \E u \in Users :
        \/ \E c \in TradedCoins : ButtonSelectCoin(u, c)
        \/ \E args \in ThreadArgs : Buy(u, args)
        \/ \E args \in ThreadSellArgs : Sell(u, args)

OverlapSpec == Init /\ [][OverlapNext]_vars

\* the commands of a chat that trades both coins
PortfolioBuyArgs == {<<Num(v)>> : v \in {0, 2}}
PortfolioSellArgs == {<<Num(v)>> : v \in {1}}
PortfolioTexts == {Num(v) : v \in {1}}

\* the lots of a chat that trades both coins: coin selection, refresh, buy, sell, tick
PortfolioNext ==
    \/ \E response \in Responses : UpdateAllPrices(TRUE, response)
    \/ CheckPrice
    \/ \E u \in Users :
        \/ \E c \in Coins : ButtonSelectCoin(u, c)
        \/ \E args \in PortfolioBuyArgs : Buy(u, args)
        \/ \E args \in PortfolioSellArgs : Sell(u, args)

PortfolioSpec == Init /\ [][PortfolioNext]_vars

\* a chat that buys both coins and sets upper thresholds on them
WatchNext ==
    \/ \E response \in Responses : UpdateAllPrices(TRUE, response)
    \/ CheckPrice
    \/ \E u \in Users :
        \/ \E c \in Coins : ButtonSelectCoin(u, c)
        \/ ButtonSetAbove(u)
        \/ \E text \in PortfolioTexts : SetPriceAlert(u, text)
        \/ \E args \in PortfolioBuyArgs : Buy(u, args)

WatchSpec == Init /\ [][WatchNext]_vars

\* one coin whose price moves over three levels, bought for amounts every level divides
BandPrices == {1, 2, 4}
BandArgs == {<<Num(v)>> : v \in {0, 4}}

BandNext ==
    \/ \E response \in [TradedCoins -> BandPrices] \cup {[c \in Coins \ TradedCoins |-> 1]} :
          UpdateAllPrices(TRUE, response)
    \/ CheckPrice
    \/ \E u \in Users :
        \/ \E c \in TradedCoins : ButtonSelectCoin(u, c)
        \/ \E args \in BandArgs : Buy(u, args)
        \/ \E args \in PortfolioSellArgs : Sell(u, args)

BandSpec == Init /\ [][BandNext]_vars

----------------------------------------------------------------------------
(* Properties *)

\* the lots of the coin a chat has selected
SelectedLots(u) == LotsOf(purchases, u, user_data[u].coin)

\* C1: for every (chat, coin), the quantities of the stored lots add up to the
\* quantities bought minus the quantities sold by the successful commands
C1_LotSum ==
    \A u \in Users, c \in Coins : SumQuantity(LotsOf(purchases, u, c)) = net[u][c]

\* a sale that removed a lot and split the next one has completed
C1_Witness ==
    \E u \in Users :
        /\ reply.op = "sell" /\ reply.outcome = "sold" /\ reply.qty = 3
        /\ Len(SelectedLots(u)) = 1
        /\ net[u][user_data[u].coin] = 1

\* the amount still to sell when the walk from the newest lot reaches lot i
RECURSIVE RemainingAt(_, _, _)
RemainingAt(lots, q, i) ==
    IF i >= Len(lots) THEN q ELSE RemainingAt(lots, q, i + 1) - lots[i + 1].quantity

\* the lots the walk stops at: nothing is left to sell, or the lot is larger than what is left
StopsAt(lots, q) ==
    {i \in DOMAIN lots : RemainingAt(lots, q, i) = 0 \/ lots[i].quantity > RemainingAt(lots, q, i)}

\* the newest such lot, 0 when every lot is consumed
Boundary(lots, q) ==
    IF StopsAt(lots, q) = {} THEN 0
    ELSE CHOOSE i \in StopsAt(lots, q) : \A j \in StopsAt(lots, q) : j <= i

\* what LIFO matching of quantity q leaves of the lots `before`
LifoResult(before, after, q) ==
    LET k == Boundary(before, q) IN
    /\ Len(after) = k
    /\ \A j \in 1..(k - 1) :
          /\ after[j].quantity = before[j].quantity
          /\ after[j].amount_usd = before[j].amount_usd
          /\ after[j].price_per_coin = before[j].price_per_coin
    /\ k > 0 =>
          /\ after[k].quantity = before[k].quantity - RemainingAt(before, q, k)
          /\ after[k].amount_usd * before[k].quantity = before[k].amount_usd * after[k].quantity
          /\ after[k].price_per_coin = before[k].price_per_coin

\* the quantity a /sell argument asks for
Requested(arg, lots) == IF arg.kind = "max" THEN SumQuantity(lots) ELSE arg.val

\* C2: a sale of q, 0 < q <= total held, at price p consumes the lots from the newest
\* backward: the lots covered by what is left to sell are removed, the first lot
\* not covered loses what is left and the same share of its invested_usd, the
\* older lots keep quantity, invested_usd and order, and the proceeds are q * p
C2_Lifo ==
    [][\A u \in Users : \A arg \in {Num(v) : v \in SellQuantities} \cup {MaxText} :
        LET lots == SelectedLots(u)
            q == Requested(arg, lots)
        IN  ( /\ reply'.op = "sell"
              /\ user_data[u].coin # NoCoin /\ HasPrice(user_data[u].coin)
              /\ 0 < q /\ q <= SumQuantity(lots)
              /\ Sell(u, <<arg>>) )
            => /\ reply'.outcome = "sold"
               /\ LifoResult(lots, LotsOf(purchases', u, user_data[u].coin), q)
               /\ reply'.qty = q
               /\ reply'.price = cache[user_data[u].coin]
               /\ reply'.usd = q * cache[user_data[u].coin]
    ]_vars

\* a sale of 3 out of two lots of 2 has left the older lot with 1
C2_Witness ==
    \E u \in Users :
        /\ reply.op = "sell" /\ reply.outcome = "sold" /\ reply.qty = 3
        /\ reply.usd = 3 * reply.price
        /\ Len(SelectedLots(u)) = 1
        /\ SelectedLots(u)[1].quantity = 1
        /\ SelectedLots(u)[1].amount_usd = SelectedLots(u)[1].price_per_coin

\* C3: /sell max on a non-empty lot list of a priced coin leaves no lot and no
\* (chat, coin) entry
C3_MaxSellCloses ==
    [][\A u \in Users :
        ( /\ reply'.op = "sell"
          /\ user_data[u].coin # NoCoin /\ HasPrice(user_data[u].coin)
          /\ Len(SelectedLots(u)) > 0
          /\ Sell(u, <<MaxText>>) )
        => user_data[u].coin \notin Keys(Get(purchases', u, <<>>))
    ]_vars

\* C4: a threshold side notifies at most once per setting: a tick sends a threshold
\* notification only for a side the user set and that has sent none since
C4_OneShot ==
    [][\A m \in outbox' : m.kind \in Sides => <<m.chat, m.coin, m.kind>> \in armed]_vars

\* C5: with no buy or sell in between, a tick notifies a lot exactly when its
\* |pl_pct| >= 5 at that tick and it was not so at the previous tick (or there was none)
C5_Hysteresis ==
    [][(reply'.op = "check_price" /\ reply'.outcome # "cache_empty") =>
        \A u \in Users, c \in Coins :
            HasPrice(c) =>
                \A i \in DOMAIN LotsOf(purchases, u, c) :
                    LET lot == LotsOf(purchases, u, c)[i] IN
                    (lot.quantity > 0 /\ lot.amount_usd > 0) =>
                        ( Msg(u, c, "pl", i) \in outbox'
                          <=> (PlOut(lot, cache[c]) /\ ~prev_out[u][c][i]) )
    ]_vars

\* C6: a sale of more than the chat holds of the coin is answered with the
\* insufficient-holdings message (no purchase recorded, when there is no lot at all),
\* and the store is left as it was
C6_InsufficientRejected ==
    [][\A u \in Users : \A v \in SellQuantities :
        ( /\ reply'.op = "sell"
          /\ user_data[u].coin # NoCoin
          /\ v > SumQuantity(SelectedLots(u))
          /\ Sell(u, <<Num(v)>>) )
        => /\ reply'.outcome = IF Len(SelectedLots(u)) = 0 THEN "no_purchases" ELSE "not_enough"
           /\ store' = store
    ]_vars

\* a sale of more than the lots hold has been refused
C6_Witness ==
    \E u \in Users :
        /\ reply.op = "sell" /\ reply.outcome = "not_enough"
        /\ Len(SelectedLots(u)) = 2
        /\ SumQuantity(SelectedLots(u)) = 2
        /\ \E i \in DOMAIN SelectedLots(u) : SelectedLots(u)[i].notified

\* every lot of the store
AllLots ==
    {LotsOf(purchases, u, c)[i] : <<u, c, i>> \in
        {x \in Users \X Coins \X (1..MaxRecords + 1) : x[3] \in DOMAIN LotsOf(purchases, x[1], x[2])}}

\* C7: every lot kept in the store has quantity > 0 and invested_usd > 0
C7_PositiveLots ==
    \A lot \in AllLots : lot.quantity > 0 /\ lot.amount_usd > 0

\* C8: no (chat, coin) alert record is stored with neither side set
C8_AlertExists ==
    \A u \in DOMAIN alerts : \A c \in DOMAIN alerts[u] : DOMAIN alerts[u][c] # {}

\* a tick fired the last side of a record and the record is gone, next to one that stays
C8_Witness ==
    /\ reply.op = "check_price" /\ reply.outcome = "saved"
    /\ \E m \in outbox : /\ m.kind \in Sides
                          /\ m.chat \in DOMAIN alerts
                          /\ m.coin \notin DOMAIN alerts[m.chat]
                          /\ DOMAIN alerts[m.chat] # {}

\* a /buy or /sell that passes every check before the price lookup
ValidRequest(op, u, args) ==
    /\ user_data[u].coin # NoCoin
    /\ Len(args) = 1
    /\ op = "buy" => args[1].kind = "num"
    /\ op = "sell" =>
          /\ Len(SelectedLots(u)) > 0
          /\ args[1].kind \in {"num", "max"}
          /\ args[1].kind = "max" => SumQuantity(SelectedLots(u)) # 0
          /\ Requested(args[1], SelectedLots(u)) <= SumQuantity(SelectedLots(u))

\* C9: while the selected coin has no cached price, no /buy and no /sell succeeds, the
\* store stays as it was, and a request that is otherwise valid is answered with the
\* price-unavailable message
C9_PriceUnavailable ==
    [][\A u \in Users :
        (user_data[u].coin # NoCoin /\ ~HasPrice(user_data[u].coin)) =>
            /\ \A args \in BuyArgs : (reply'.op = "buy" /\ Buy(u, args)) =>
                    /\ store' = store
                    /\ reply'.outcome # "logged"
                    /\ ValidRequest("buy", u, args) => reply'.outcome = "no_price"
            /\ \A args \in SellArgs : (reply'.op = "sell" /\ Sell(u, args)) =>
                    /\ store' = store
                    /\ reply'.outcome # "sold"
                    /\ ValidRequest("sell", u, args) => reply'.outcome = "no_price"
    ]_vars

\* a /sell of a held quantity was refused for want of a price, the lots still there
C9_Witness ==
    \E u \in Users :
        /\ reply.op = "sell" /\ reply.outcome = "no_price"
        /\ ~HasPrice(user_data[u].coin)
        /\ Len(SelectedLots(u)) > 0

\* C10: a /buy, /sell or price message refused because no coin is selected or because
\* its number does not parse leaves the store as it was
C10_InputErrors ==
    [][\A u \in Users :
        /\ \A args \in BuyArgs :
              ( /\ reply'.op = "buy"
                /\ \/ user_data[u].coin = NoCoin
                   \/ Len(args) = 1 /\ args[1].kind # "num"
                /\ Buy(u, args) )
              => /\ reply'.outcome = IF user_data[u].coin = NoCoin THEN "no_coin" ELSE "invalid"
                 /\ store' = store
        /\ \A args \in SellArgs :
              ( /\ reply'.op = "sell"
                /\ \/ user_data[u].coin = NoCoin
                   \/ Len(args) = 1 /\ args[1].kind = "text"
                /\ Sell(u, args) )
              => /\ reply'.outcome = IF user_data[u].coin = NoCoin THEN "no_coin"
                                     ELSE IF Len(SelectedLots(u)) = 0 THEN "no_purchases"
                                     ELSE "invalid"
                 /\ store' = store
        /\ \A text \in AlertTexts :
              ( /\ reply'.op = "set_price_alert"
                /\ \/ user_data[u].coin = NoCoin
                   \/ text.kind # "num"
                /\ SetPriceAlert(u, text) )
              => /\ reply'.outcome = IF user_data[u].coin = NoCoin THEN "no_coin" ELSE "invalid"
                 /\ store' = store
    ]_vars

\* an unparseable price message was refused while a set button was pending and the
\* store holds a lot and a threshold
C10_Witness ==
    \E u \in Users :
        /\ reply.op = "set_price_alert" /\ reply.outcome = "invalid"
        /\ user_data[u].setting_above
        /\ Len(SelectedLots(u)) > 0
        /\ TotalSides(alerts) > 0

\* every lot of the store has quantity > 0 and amount_usd > 0
ProperLots == \A lot \in AllLots : lot.quantity > 0 /\ lot.amount_usd > 0

\* C11: /history answers a report or the empty-diary message and never raises,
\* whatever the snapshot holds; stated for stores whose lots are all positive
C11_HistoryNeverRaises ==
    (reply.op = "history" /\ ProperLots) => reply.outcome \in {"empty", "report"}

\* a running check_price between its load_config and the end of its save_config
InCycle(instance) == instance.pc \in {"loaded", "thresholds", "lots", "writing"}

\* the answers of the handlers that went through a load, a change and a save of config.json
SavesStore(r) ==
    \/ r.op = "set_price_alert" /\ r.outcome \in Sides
    \/ r.op = "buy" /\ r.outcome = "logged"

\* C12: load-mutate-save cycles do not overlap: no handler loads, changes and saves
\* the store while a check_price is between its load and the end of its save
C12_CyclesSerialized ==
    [][SavesStore(reply') => \A i \in DOMAIN tick : ~InCycle(tick[i])]_vars

\* C13: no load finds config.json empty or partly written by a save in progress
C13_NoPartialRead == reply.outcome # "JSONDecodeError"

C15_AlertMapGc ==
    (reply.op = "check_price" /\ reply.outcome = "saved")
        => \A u \in DOMAIN alerts : DOMAIN alerts[u] # {}

\* C16: with the reserved entries in the store, every tick runs to its end: it
\* skips on an empty cache or saves, and takes no reserved entry for a chat
C16_ReservedKeysSurvive ==
    reply.op = "check_price" => reply.outcome \in {"cache_empty", "saved"}

\* C17: a check_price that has not completed its save has sent no notification
C17_PersistBeforeDispatch == \A i \in DOMAIN tick : ~tick[i].sent

\* the steps of check_price that read COIN_PRICE_CACHE
ReadsSnapshot ==
    {"cache_empty", "loaded", "thresholds", "AttributeError", "lots", "ZeroDivisionError"}

\* C18: when a check_price reads the price snapshot, the refresh that fell due with
\* it has completed
C18_RefreshFirst ==
    [][(reply'.op = "check_price" /\ reply'.outcome \in ReadsSnapshot) => job = "idle"]_vars

\* C19: a successful refresh leaves the snapshot equal to the response, a failed one
\* leaves it as it was and is answered as an error, not raised
C19_ReplaceOrKeep ==
    [][\A ok \in BOOLEAN : \A response \in Responses :
        (reply'.op = "update_all_prices" /\ UpdateAllPrices(ok, response))
        => /\ cache' = IF ok THEN response ELSE cache
           /\ reply'.outcome = IF ok THEN "updated" ELSE "error"
    ]_vars

\* a failed refresh has kept a snapshot that prices every coin
C19_Witness ==
    /\ reply.op = "update_all_prices" /\ reply.outcome = "error"
    /\ DOMAIN cache = Coins

\* the side s of the record of (chat, coin), set or not
SideOf(cfg, chat, coin, s) ==
    IF chat \in DOMAIN cfg /\ coin \in DOMAIN cfg[chat] /\ s \in DOMAIN cfg[chat][coin]
    THEN [set |-> TRUE, price |-> cfg[chat][coin][s]]
    ELSE [set |-> FALSE, price |-> 0]

C21_ResetOnTrade ==
    [][\A u \in Users :
        ( /\ reply'.op \in {"buy", "sell"}
          /\ reply'.outcome \in {"logged", "sold"}
          /\ \/ \E args \in PortfolioBuyArgs : Buy(u, args)
             \/ \E args \in PortfolioSellArgs : Sell(u, args) )
        => /\ \A i \in DOMAIN LotsOf(purchases', u, user_data[u].coin) :
                 ~LotsOf(purchases', u, user_data[u].coin)[i].notified
           /\ \A x \in Users \X Coins :
                 x # <<u, user_data[u].coin>>
                    => LotsOf(purchases', x[1], x[2]) = LotsOf(purchases, x[1], x[2])
    ]_vars

\* a sale left a lot of the selected coin, its flag down, next to a notified lot of
\* the other coin
C21_Witness ==
    \E u \in Users : \E c \in Coins \ {user_data[u].coin} :
        /\ reply.op = "sell" /\ reply.outcome = "sold"
        /\ Len(SelectedLots(u)) = 1
        /\ ~SelectedLots(u)[1].notified
        /\ Len(LotsOf(purchases, u, c)) = 1
        /\ LotsOf(purchases, u, c)[1].notified


\* the tick left coin c alone: its threshold records and its lots are as they were,
\* and no notification is about it
SkipsCoin(c) ==
    /\ \A u \in Users, s \in Sides : SideOf(alerts', u, c, s) = SideOf(alerts, u, c, s)
    /\ \A u \in Users : LotsOf(purchases', u, c) = LotsOf(purchases, u, c)
    /\ \A m \in outbox' : m.coin # c

\* the store holds a threshold or a lot of coin c
HasRecord(c) ==
    \E u \in Users :
        \/ \E s \in Sides : SideOf(alerts, u, c, s).set
        \/ Len(LotsOf(purchases, u, c)) > 0

\* a lot of a coin that has a price divides by zero (the lots C7 is about)
PricedLotRaises ==
    \E u \in Users, c \in DOMAIN cache :
        \E i \in DOMAIN LotsOf(purchases, u, c) : LotsOf(purchases, u, c)[i].amount_usd = 0

Beyond(u, c, s, p) ==
    /\ SideOf(alerts, u, c, s).set
    /\ \/ s = "above" /\ p > SideOf(alerts, u, c, s).price
       \/ s = "below" /\ p < SideOf(alerts, u, c, s).price

C24_PendingInput ==
    [][(/\ reply.op = "set_price_alert" /\ reply.outcome \in Sides
        /\ reply'.op = "set_price_alert")
        => /\ reply'.outcome \notin Sides
           /\ alerts' = alerts
    ]_vars

\* C25: when a /buy or /sell has overlapped a running tick and both have finished,
\* the lots of every (chat, coin) still add up to the quantities bought minus the
\* quantities sold: a lot whose purchase was confirmed is in the store, a quantity
\* whose sale was confirmed is not back
C25_LotsSurviveTick ==
    (tick = <<>> /\ disk = "complete")
        => \A u \in Users, c \in Coins : SumQuantity(LotsOf(purchases, u, c)) = net[u][c]

\* C26: after a tick that ran to its save, each lot of a coin that has a price is
\* notified if and only if its |pl_pct| >= 5 at the price of the tick; a lot that was
\* notified before the tick and is outside the band at it, on either side, gets no
\* further notification
C26_NotifiedIffOutside ==
    [][(reply'.op = "check_price" /\ reply'.outcome = "saved") =>
        \A u \in Users, c \in DOMAIN cache :
            \A i \in DOMAIN LotsOf(purchases', u, c) :
                /\ LotsOf(purchases', u, c)[i].notified
                      <=> PlOut(LotsOf(purchases', u, c)[i], cache[c])
                /\ LotsOf(purchases, u, c)[i].notified
                      => Msg(u, c, "pl", i) \notin outbox'
    ]_vars

\* a tick has saved at a price half the purchase price of a lot that an earlier tick
\* had notified: the lot is still notified and nothing was sent
C26_Witness ==
    /\ reply.op = "check_price" /\ reply.outcome = "saved"
    /\ outbox = {}
    /\ \E u \in Users, c \in DOMAIN cache :
          \E i \in DOMAIN LotsOf(purchases, u, c) :
              /\ LotsOf(purchases, u, c)[i].notified
              /\ LotsOf(purchases, u, c)[i].amount_usd > 0
              /\ PlLow(LotsOf(purchases, u, c)[i], cache[c])

\* C27: a /sell that is accepted, whatever number it was given, leaves each lot it
\* keeps with at most the quantity the lot had, and its proceeds are not negative;
\* stated for stores whose lots are all positive
C27_SellNeverIncreases ==
    [][\A u \in Users :
        (reply'.op = "sell" /\ reply'.outcome = "sold" /\ ProperLots) =>
            LET before == SelectedLots(u)
                after == LotsOf(purchases', u, user_data[u].coin)
            IN  /\ Len(after) <= Len(before)
                /\ \A i \in DOMAIN after : after[i].quantity <= before[i].quantity
                /\ reply'.usd >= 0
    ]_vars

====
